---- MODULE Spec2Model ----
(***************************************************************************)
(* Model of 01-network: the configuration loader (config.ts) and the three *)
(* variants of the topology builder `create` (network.ts, first and second *)
(* half, and the subnets-only variant).                                    *)
(*                                                                         *)
(* A JavaScript object is a function whose DOMAIN is the set of its own    *)
(* properties: an absent property is a key that is not in the DOMAIN.      *)
(* A JavaScript array is a sequence; the source's 0-based index i is the   *)
(* sequence's position i + 1.  A resource handle is the position of the    *)
(* constructor call that made it in `calls`, the log of constructor calls  *)
(* of the running invocation; 0 is a binding that holds no resource.       *)
(***************************************************************************)
EXTENDS Integers, Sequences, FiniteSets, TLC

(***************************************************************************)
(* Bounds of the model.                                                    *)
(***************************************************************************)
MaxAZ == 2
MaxCidrs == 2
MaxTags == 2
MaxInvocations == 2

(***************************************************************************)
(* JavaScript values.                                                      *)
(***************************************************************************)
\* The value `undefined` where the source expects a string.
Undefined == "<undefined>"

\* Template-literal conversion `${v}` of a string or of undefined.
Str(v) == IF v = Undefined THEN "undefined" ELSE v

\* Property read o.k of a string-valued property: undefined when absent.
Prop(o, k) == IF k \in DOMAIN o THEN o[k] ELSE Undefined

\* Array read arr[index] with the source's 0-based index: undefined when
\* the index is out of range.
At(arr, index) == IF index + 1 \in DOMAIN arr THEN arr[index + 1] ELSE Undefined

\* The object o without its property k.
Without(o, k) == [f \in DOMAIN o \ {k} |-> o[f]]

(***************************************************************************)
(* Inputs: the values the configuration store can hold under `network`.    *)
(***************************************************************************)
Names == {"dev"}
VpcCidrs == {"10.0.0.0/16"}
AZPool == {"a", "undefined"}

\* The i-th CIDR block of a boundary's list (pairwise distinct).
CidrAt(boundary, i) == "10." \o ToString(IF boundary = "public" THEN 0 ELSE 1)
                       \o "." \o ToString(i) \o ".0/24"

\* The i-th caller tag; the second one has the key the builder injects.
TagAt(i) == IF i = 2 THEN [key |-> "Name", value |-> "custom"]
            ELSE [key |-> "t" \o ToString(i), value |-> "v" \o ToString(i)]

SeqsUpTo(S, n) == UNION {[1..k -> S] : k \in 0..n}

AZLists == SeqsUpTo(AZPool, MaxAZ)

\* SubnetConfig values: cidrBlocks, and tags or no tags property.
SubnetConfigs(boundary) ==
    LET cidrLists == {[i \in 1..k |-> CidrAt(boundary, i)] : k \in 0..MaxCidrs}
        tagLists  == {[i \in 1..k |-> TagAt(i)] : k \in 0..MaxTags}
    IN  {[cidrBlocks |-> c] : c \in cidrLists}
        \cup {[cidrBlocks |-> c, tags |-> t] : c \in cidrLists, t \in tagLists}

\* Objects that have every required property of NetworkConfig.
TypedConfigs ==
    [name : Names, cidrBlock : VpcCidrs, availabilityZones : AZLists,
     publicSubnet : SubnetConfigs("public"),
     privateSubnet : SubnetConfigs("private")]

RequiredFields == {"name", "cidrBlock", "availabilityZones",
                   "publicSubnet", "privateSubnet"}

\* Objects with one required property missing, at either level.
UntypedConfigs ==
    LET base == {c \in TypedConfigs :
                    /\ Len(c.availabilityZones) = 1
                    /\ c.availabilityZones[1] = "a"
                    /\ "tags" \notin DOMAIN c.publicSubnet
                    /\ "tags" \notin DOMAIN c.privateSubnet
                    /\ Len(c.publicSubnet.cidrBlocks) = 1
                    /\ Len(c.privateSubnet.cidrBlocks) \in {0, 1}}
    IN  {Without(c, f) : c \in base, f \in RequiredFields}
        \cup {[c EXCEPT ![b] = Without(c[b], "cidrBlocks")] :
                 c \in base, b \in {"publicSubnet", "privateSubnet"}}

\* The interface NetworkConfig, as a run-time predicate.
IsNetworkConfig(o) ==
    /\ RequiredFields \subseteq DOMAIN o
    /\ "cidrBlocks" \in DOMAIN o.publicSubnet
    /\ "cidrBlocks" \in DOMAIN o.privateSubnet

\* The store: no `network` key (<<>>) or the object stored under it.
Stores == {<<>>} \cup {<<o>> : o \in TypedConfigs \cup UntypedConfigs}

Variants == {"full", "subnets", "vpc"}

(***************************************************************************)
(* Resources and references.                                               *)
(***************************************************************************)
\* An output property of a handle, e.g. createdVpc.vpcId.
Out(handle, attr) == [handle |-> handle, attr |-> attr]
NoRef == Out(0, "none")

NoArgs == [cidrBlock |-> Undefined, availabilityZone |-> Undefined,
           destinationCidrBlock |-> Undefined,
           vpcId |-> NoRef, subnetId |-> NoRef, allocationId |-> NoRef,
           gatewayId |-> NoRef, natGatewayId |-> NoRef, routeTableId |-> NoRef,
           tags |-> <<>>]

\* new K(name, args): the arguments the constructor receives.
Resource(kind, name, args) == ([kind |-> kind, name |-> name] @@ args) @@ NoArgs

NameTag(value) == [key |-> "Name", value |-> value]

PRIVATE == "private"
PUBLIC == "public"

NoFrame == [createdVpc |-> 0,
            createdPrivateSubnets |-> <<>>, createdPublicSubnets |-> <<>>,
            createdEipNat |-> 0, createdNatGateway |-> 0,
            createdInternetGateway |-> 0,
            createdPublicRouteTable |-> 0, createdPublicRoute |-> 0,
            createdPublicRouteTableAssociations |-> <<>>,
            createdPrivateRouteTable |-> 0, createdPrivateRoute |-> 0,
            createdPrivateRouteTableAssociations |-> <<>>]

VARIABLES
    store,          \* the configuration store's value under `network`
    variant,        \* which create the program calls
    networkConfig,  \* config.ts networkConfig: <<>> before the load
    pc,             \* position of the program
    frame,          \* the local bindings of the running create
    calls,          \* constructor calls of the running create, in order
    result,         \* <<>> or <<the bundle create returned>>
    history         \* what each returned invocation produced

vars == <<store, variant, networkConfig, pc, frame, calls, result, history>>

Init ==
    /\ store \in Stores
    /\ variant \in Variants
    /\ networkConfig = <<>>
    /\ pc = "load"
    /\ frame = NoFrame
    /\ calls = <<>>
    /\ result = <<>>
    /\ history = <<>>

(***************************************************************************)
(* config.ts                                                               *)
(***************************************************************************)
\* pulumiConfig.requireObject<NetworkConfig>('network'): fails when the key
\* is missing; the type argument is erased, the object is returned as it is.
requireObject(s) == IF s = <<>> THEN "ConfigError" ELSE "ok"

Load ==
    /\ pc = "load"
    /\ IF requireObject(store) = "ConfigError"
       THEN pc' = "configError" /\ UNCHANGED networkConfig
       ELSE pc' = "idle" /\ networkConfig' = store
    /\ UNCHANGED <<store, variant, frame, calls, result, history>>

(***************************************************************************)
(* network.ts: names                                                       *)
(***************************************************************************)
\* Mutation: a counter of earlier invocations kept in the name.
vpcNameNumbered(name) == Str(name) \o "-vpc-" \o ToString(Len(history))

vpcName(name) == Str(name) \o "-vpc"

\* Mutation: the boundary left out of the name.
subnetNameWithoutBoundary(name, boundary, availabilityZone) ==
    Str(name) \o "-subnet-" \o Str(availabilityZone)

subnetName(name, boundary, availabilityZone) ==
    Str(name) \o "-" \o boundary \o "-subnet-" \o Str(availabilityZone)

eipNatName(name) == Str(name) \o "-eip-nat"
natName(name) == Str(name) \o "-nat"
igwName(name) == Str(name) \o "-igw"
routeTableName(name, boundary) == Str(name) \o "-" \o boundary \o "-rtb"
routeName(name, boundary) == Str(name) \o "-" \o boundary \o "-route"

\* `${name}-${boundary}-rtb-assc-${index}`, index the 0-based map index.
associationName(name, boundary, index) ==
    Str(name) \o "-" \o boundary \o "-rtb-assc-" \o ToString(index)

(***************************************************************************)
(* network.ts: createSubnets                                               *)
(***************************************************************************)
\* The SubnetsArgs object create passes: a binding create destructured from
\* an absent property is undefined, here an absent property of the args.
SubnetsArgs(cfg, boundary, key, vpcId) ==
    LET given == [k \in {"availabilityZones"} \cap DOMAIN cfg |-> cfg[k]]
        sc == [k \in (IF key \in DOMAIN cfg THEN {"subnetConfig"} ELSE {})
                  |-> cfg[key]]
    IN  (([boundary |-> boundary, name |-> Prop(cfg, "name"), vpcId |-> vpcId]
          @@ given) @@ sc)

\* createSubnets throws a TypeError: destructuring an undefined subnetConfig,
\* calling map of an undefined cidrBlocks, or indexing an undefined
\* availabilityZones in the first callback.
createSubnetsThrows(subnetsArgs) ==
    \/ "subnetConfig" \notin DOMAIN subnetsArgs
    \/ "cidrBlocks" \notin DOMAIN subnetsArgs.subnetConfig
    \/ /\ subnetsArgs.subnetConfig.cidrBlocks # <<>>
       /\ "availabilityZones" \notin DOMAIN subnetsArgs

\* Mutation: caller tags with the key Name dropped in favour of the injected one.
tagsWithoutCallerName(subnetConfig) ==
    IF "tags" \in DOMAIN subnetConfig
    THEN SelectSeq(subnetConfig.tags, LAMBDA t : t.key # "Name")
    ELSE <<>>

\* const { cidrBlocks, tags = [] } = subnetConfig
tagsOrDefault(subnetConfig) ==
    IF "tags" \in DOMAIN subnetConfig THEN subnetConfig.tags ELSE <<>>

\* Mutation: the zone read at index + 1.
subnetAtNextZone(subnetsArgs, cidrBlock, index) ==
    LET availabilityZone == At(subnetsArgs.availabilityZones, index + 1)
        name == subnetName(subnetsArgs.name, subnetsArgs.boundary,
                           availabilityZone)
    IN  Resource("Subnet", name,
                 [availabilityZone |-> availabilityZone,
                  cidrBlock |-> cidrBlock,
                  vpcId |-> subnetsArgs.vpcId,
                  tags |-> tagsOrDefault(subnetsArgs.subnetConfig)
                           \o <<NameTag(name)>>])

\* The body of the map callback: the Subnet constructed for (cidrBlock, index).
subnetAt(subnetsArgs, cidrBlock, index) ==
    LET availabilityZone == At(subnetsArgs.availabilityZones, index)
        name == subnetName(subnetsArgs.name, subnetsArgs.boundary,
                           availabilityZone)
    IN  Resource("Subnet", name,
                 [availabilityZone |-> availabilityZone,
                  cidrBlock |-> cidrBlock,
                  vpcId |-> subnetsArgs.vpcId,
                  tags |-> tagsOrDefault(subnetsArgs.subnetConfig)
                           \o <<NameTag(name)>>])

\* Mutation: the map stops at the shorter of cidrBlocks and availabilityZones.
createSubnetsTruncating(subnetsArgs) ==
    LET cidrBlocks == subnetsArgs.subnetConfig.cidrBlocks
        zones == IF "availabilityZones" \in DOMAIN subnetsArgs
                 THEN Len(subnetsArgs.availabilityZones) ELSE 0
        n == IF Len(cidrBlocks) <= zones THEN Len(cidrBlocks) ELSE zones
    IN  [i \in 1..n |-> subnetAt(subnetsArgs, cidrBlocks[i], i - 1)]

\* cidrBlocks.map(...): one Subnet per CIDR block, in the blocks' order.
createSubnets(subnetsArgs) ==
    LET cidrBlocks == subnetsArgs.subnetConfig.cidrBlocks
    IN  [i \in 1..Len(cidrBlocks) |-> subnetAt(subnetsArgs, cidrBlocks[i], i - 1)]

\* The handles of n resources constructed after `base` earlier calls.
Handles(base, n) == [i \in 1..n |-> base + i]

(***************************************************************************)
(* network.ts: the resources create constructs                             *)
(***************************************************************************)
vpcResource(cfg) ==
    Resource("VPC", vpcName(Prop(cfg, "name")),
             [cidrBlock |-> Prop(cfg, "cidrBlock"),
              tags |-> <<NameTag(vpcName(Prop(cfg, "name")))>>])

eipResource(name) ==
    Resource("EIP", eipNatName(name), [tags |-> <<NameTag(eipNatName(name))>>])

natGatewayResource(name, eip, publicSubnets) ==
    Resource("NatGateway", natName(name),
             [allocationId |-> Out(eip, "allocationId"),
              subnetId |-> Out(publicSubnets[1], "id"),
              tags |-> <<NameTag(natName(name))>>])

\* aws_classic: tags is the map { Name: igwName }, kept as its one entry.
internetGatewayResource(name, vpc) ==
    Resource("InternetGateway", igwName(name),
             [vpcId |-> Out(vpc, "vpcId"),
              tags |-> <<NameTag(igwName(name))>>])

routeTableResource(name, boundary, vpc) ==
    Resource("RouteTable", routeTableName(name, boundary),
             [vpcId |-> Out(vpc, "vpcId"),
              tags |-> <<NameTag(routeTableName(name, boundary))>>])

publicRouteResource(name, igw, rtb) ==
    Resource("Route", routeName(name, PUBLIC),
             [destinationCidrBlock |-> "0.0.0.0/0",
              gatewayId |-> Out(igw, "id"),
              routeTableId |-> Out(rtb, "id")])

\* Mutation: the private default route sent through the internet gateway.
privateRouteViaInternetGateway(name, nat, rtb) ==
    Resource("Route", routeName(name, PRIVATE),
             [destinationCidrBlock |-> "0.0.0.0/0",
              gatewayId |-> Out(frame.createdInternetGateway, "id"),
              routeTableId |-> Out(rtb, "id")])

privateRouteResource(name, nat, rtb) ==
    Resource("Route", routeName(name, PRIVATE),
             [destinationCidrBlock |-> "0.0.0.0/0",
              natGatewayId |-> Out(nat, "id"),
              routeTableId |-> Out(rtb, "id")])

\* subnets.map((subnet, index) => new SubnetRouteTableAssociation(...))
publicAssociations(name, subnets, rtb) ==
    [i \in 1..Len(subnets) |->
        Resource("SubnetRouteTableAssociation",
                 associationName(name, PUBLIC, i - 1),
                 [subnetId |-> Out(subnets[i], "id"),
                  routeTableId |-> Out(rtb, "id")])]

\* Mutation: the private subnets associated with the public route table.
privateAssociationsCrossed(name, subnets, rtb) ==
    [i \in 1..Len(subnets) |->
        Resource("SubnetRouteTableAssociation",
                 associationName(name, PRIVATE, i - 1),
                 [subnetId |-> Out(subnets[i], "id"),
                  routeTableId |-> Out(frame.createdPublicRouteTable,
                                       "routeTableId")])]

privateAssociations(name, subnets, rtb) ==
    [i \in 1..Len(subnets) |->
        Resource("SubnetRouteTableAssociation",
                 associationName(name, PRIVATE, i - 1),
                 [subnetId |-> Out(subnets[i], "id"),
                  routeTableId |-> Out(rtb, "routeTableId")])]

(***************************************************************************)
(* network.ts: create, one action per block of the function                *)
(***************************************************************************)
\* Mutation: the NAT gateway block moved after the private routing block.
FullOrderNatLast == <<"vpc", "privateSubnets", "publicSubnets", "igw",
                      "publicRouting", "privateRouting", "nat", "return">>

\* The blocks of the full create, in the order of the source.
FullOrder == <<"vpc", "privateSubnets", "publicSubnets", "nat", "igw",
               "publicRouting", "privateRouting", "return">>

\* The blocks of the subnets-only create.
SubnetsOrder == <<"vpc", "privateSubnets", "publicSubnets", "return">>

\* The blocks of the VPC-only create.
VpcOrder == <<"vpc", "return">>

Order == CASE variant = "full" -> FullOrder
           [] variant = "subnets" -> SubnetsOrder
           [] variant = "vpc" -> VpcOrder

\* The block that follows `label` in the running variant.
After(label) ==
    LET i == CHOOSE k \in DOMAIN Order : Order[k] = label IN Order[i + 1]

cfgName == Prop(networkConfig[1], "name")

\* create(networkConfig) is called: a fresh activation, nothing constructed.
Invoke ==
    /\ pc \in {"idle", "returned"}
    /\ Len(history) < MaxInvocations
    /\ pc' = Order[1]
    /\ frame' = NoFrame
    /\ calls' = <<>>
    /\ result' = <<>>
    /\ UNCHANGED <<store, variant, networkConfig, history>>

CreateVpc ==
    /\ pc = "vpc"
    /\ calls' = Append(calls, vpcResource(networkConfig[1]))
    /\ frame' = [frame EXCEPT !.createdVpc = Len(calls) + 1]
    /\ pc' = After("vpc")
    /\ UNCHANGED <<store, variant, networkConfig, result, history>>

CreateSubnetsOf(label, boundary, key, binding) ==
    LET subnetsArgs == SubnetsArgs(networkConfig[1], boundary, key,
                                   Out(frame.createdVpc, "vpcId"))
    IN  /\ pc = label
        /\ IF createSubnetsThrows(subnetsArgs)
           THEN /\ pc' = "threw"
                /\ UNCHANGED <<calls, frame>>
           ELSE LET created == createSubnets(subnetsArgs)
                IN  /\ calls' = calls \o created
                    /\ frame' = [frame EXCEPT
                                   ![binding] = Handles(Len(calls), Len(created))]
                    /\ pc' = After(label)
        /\ UNCHANGED <<store, variant, networkConfig, result, history>>

CreatePrivateSubnets ==
    CreateSubnetsOf("privateSubnets", PRIVATE, "privateSubnet",
                    "createdPrivateSubnets")

CreatePublicSubnets ==
    CreateSubnetsOf("publicSubnets", PUBLIC, "publicSubnet",
                    "createdPublicSubnets")

\* The EIP is constructed; createdPublicSubnets[0].id throws a TypeError
\* when there is no public subnet, before the NatGateway is constructed.
CreateNatGateway ==
    /\ pc = "nat"
    /\ IF frame.createdPublicSubnets = <<>>
       THEN /\ calls' = Append(calls, eipResource(cfgName))
            /\ frame' = [frame EXCEPT !.createdEipNat = Len(calls) + 1]
            /\ pc' = "threw"
       ELSE /\ calls' = calls \o
                  <<eipResource(cfgName),
                    natGatewayResource(cfgName, Len(calls) + 1,
                                       frame.createdPublicSubnets)>>
            /\ frame' = [frame EXCEPT !.createdEipNat = Len(calls) + 1,
                                      !.createdNatGateway = Len(calls) + 2]
            /\ pc' = After("nat")
    /\ UNCHANGED <<store, variant, networkConfig, result, history>>

CreateInternetGateway ==
    /\ pc = "igw"
    /\ calls' = Append(calls, internetGatewayResource(cfgName, frame.createdVpc))
    /\ frame' = [frame EXCEPT !.createdInternetGateway = Len(calls) + 1]
    /\ pc' = After("igw")
    /\ UNCHANGED <<store, variant, networkConfig, result, history>>

CreatePublicRouting ==
    LET rtb == Len(calls) + 1
        assocs == publicAssociations(cfgName, frame.createdPublicSubnets, rtb)
    IN  /\ pc = "publicRouting"
        /\ calls' = (calls \o
                       <<routeTableResource(cfgName, PUBLIC, frame.createdVpc),
                         publicRouteResource(cfgName,
                                             frame.createdInternetGateway, rtb)>>)
                    \o assocs
        /\ frame' = [frame EXCEPT
                       !.createdPublicRouteTable = rtb,
                       !.createdPublicRoute = rtb + 1,
                       !.createdPublicRouteTableAssociations =
                           Handles(rtb + 1, Len(assocs))]
        /\ pc' = After("publicRouting")
        /\ UNCHANGED <<store, variant, networkConfig, result, history>>

CreatePrivateRouting ==
    LET rtb == Len(calls) + 1
        assocs == privateAssociations(cfgName, frame.createdPrivateSubnets, rtb)
    IN  /\ pc = "privateRouting"
        /\ calls' = (calls \o
                       <<routeTableResource(cfgName, PRIVATE, frame.createdVpc),
                         privateRouteResource(cfgName,
                                              frame.createdNatGateway, rtb)>>)
                    \o assocs
        /\ frame' = [frame EXCEPT
                       !.createdPrivateRouteTable = rtb,
                       !.createdPrivateRoute = rtb + 1,
                       !.createdPrivateRouteTableAssociations =
                           Handles(rtb + 1, Len(assocs))]
        /\ pc' = After("privateRouting")
        /\ UNCHANGED <<store, variant, networkConfig, result, history>>

\* The object each variant of create returns.
Bundle ==
    CASE variant = "full" ->
           [internetGateway |-> frame.createdInternetGateway,
            natGateway |-> frame.createdNatGateway,
            natGatewayEip |-> frame.createdEipNat,
            privateRoute |-> frame.createdPrivateRoute,
            privateRouteAssociations |->
                frame.createdPrivateRouteTableAssociations,
            privateRouteTable |-> frame.createdPrivateRouteTable,
            privateSubnets |-> frame.createdPrivateSubnets,
            publicRoute |-> frame.createdPublicRoute,
            publicRouteAssociations |->
                frame.createdPublicRouteTableAssociations,
            publicRouteTable |-> frame.createdPublicRouteTable,
            publicSubnets |-> frame.createdPublicSubnets,
            vpc |-> frame.createdVpc]
      [] variant = "subnets" ->
           [privateSubnets |-> frame.createdPrivateSubnets,
            publicSubnets |-> frame.createdPublicSubnets,
            vpc |-> frame.createdVpc]
      [] variant = "vpc" -> [vpc |-> frame.createdVpc]

Return ==
    /\ pc = "return"
    /\ result' = <<Bundle>>
    /\ history' = Append(history, [calls |-> calls, bundle |-> Bundle])
    /\ pc' = "returned"
    /\ UNCHANGED <<store, variant, networkConfig, frame, calls>>

Next ==
    \/ Load
    \/ Invoke
    \/ CreateVpc
    \/ CreatePrivateSubnets
    \/ CreatePublicSubnets
    \/ CreateNatGateway
    \/ CreateInternetGateway
    \/ CreatePublicRouting
    \/ CreatePrivateRouting
    \/ Return

Spec == Init /\ [][Next]_vars

(***************************************************************************)
(* Vocabulary of the properties                                            *)
(***************************************************************************)
Loaded == networkConfig # <<>>

\* The loaded object satisfies the interface NetworkConfig.
Typed == Loaded /\ IsNetworkConfig(networkConfig[1])

\* Typed, with one CIDR block per availability zone in both boundaries.
Valid ==
    /\ Typed
    /\ Len(networkConfig[1].publicSubnet.cidrBlocks)
         = Len(networkConfig[1].availabilityZones)
    /\ Len(networkConfig[1].privateSubnet.cidrBlocks)
         = Len(networkConfig[1].availabilityZones)

\* Both createSubnets calls of the running invocation have returned.
SubnetsCreated ==
    /\ variant \in {"full", "subnets"}
    /\ pc \in {"nat", "igw", "publicRouting", "privateRouting", "return",
               "returned"}

Boundaries == {PUBLIC, PRIVATE}

ConfigOf(boundary) ==
    IF boundary = PUBLIC THEN networkConfig[1].publicSubnet
    ELSE networkConfig[1].privateSubnet

CreatedOf(boundary) ==
    IF boundary = PUBLIC THEN frame.createdPublicSubnets
    ELSE frame.createdPrivateSubnets

Min(a, b) == IF a <= b THEN a ELSE b

Range(f) == {f[i] : i \in DOMAIN f}

(***************************************************************************)
(* C1: for a valid NetworkConfig, create returns as many public and as     *)
(* many private subnets as there are availability zones, and the i-th      *)
(* subnet of a boundary has the boundary's i-th CIDR block, the i-th       *)
(* availability zone and the name {name}-{boundary}-subnet-{zone}.         *)
(***************************************************************************)
C1_SubnetsMatchInputs ==
    (pc = "returned" /\ variant \in {"full", "subnets"} /\ Valid) =>
        LET cfg == networkConfig[1]
            got(boundary) == IF boundary = PUBLIC THEN result[1].publicSubnets
                             ELSE result[1].privateSubnets
        IN  \A boundary \in Boundaries :
              /\ Len(got(boundary)) = Len(cfg.availabilityZones)
              /\ \A i \in DOMAIN got(boundary) :
                   LET subnet == calls[got(boundary)[i]]
                   IN  /\ subnet.kind = "Subnet"
                       /\ subnet.cidrBlock = ConfigOf(boundary).cidrBlocks[i]
                       /\ subnet.availabilityZone = cfg.availabilityZones[i]
                       /\ subnet.name = cfg.name \o "-" \o boundary
                                        \o "-subnet-" \o cfg.availabilityZones[i]

C1_Witness ==
    /\ pc = "returned" /\ variant = "full" /\ Valid
    /\ Len(networkConfig[1].availabilityZones) = 2
    /\ networkConfig[1].availabilityZones[1] # networkConfig[1].availabilityZones[2]
    /\ Len(result[1].publicSubnets) = 2
    /\ Len(result[1].privateSubnets) = 2

(***************************************************************************)
(* C2, as claimed: when the number of availability zones differs from the  *)
(* number of CIDR blocks of a boundary, the boundary gets                  *)
(* min(#zones, #blocks) subnets and none has an undefined zone.            *)
(***************************************************************************)
C2_TruncatesToShorter ==
    (SubnetsCreated /\ Typed) =>
        \A boundary \in Boundaries :
          Len(ConfigOf(boundary).cidrBlocks)
              # Len(networkConfig[1].availabilityZones) =>
            /\ Len(CreatedOf(boundary))
                 = Min(Len(networkConfig[1].availabilityZones),
                       Len(ConfigOf(boundary).cidrBlocks))
            /\ \A h \in Range(CreatedOf(boundary)) :
                 calls[h].availabilityZone # Undefined

(***************************************************************************)
(* C2, amended: under such a mismatch the boundary gets one subnet per     *)
(* CIDR block.  Surplus availability zones are ignored; every CIDR block   *)
(* beyond the last zone still yields a subnet, with an undefined zone and  *)
(* the name {name}-{boundary}-subnet-undefined.                            *)
(***************************************************************************)
C2_OneSubnetPerCidrBlock ==
    (SubnetsCreated /\ Typed) =>
        \A boundary \in Boundaries :
          LET zones == networkConfig[1].availabilityZones
              blocks == ConfigOf(boundary).cidrBlocks
              created == CreatedOf(boundary)
          IN  Len(blocks) # Len(zones) =>
                /\ Len(created) = Len(blocks)
                /\ \A i \in DOMAIN created :
                     /\ calls[created[i]].cidrBlock = blocks[i]
                     /\ i <= Len(zones) =>
                          calls[created[i]].availabilityZone = zones[i]
                     /\ i > Len(zones) =>
                          /\ calls[created[i]].availabilityZone = Undefined
                          /\ calls[created[i]].name =
                               networkConfig[1].name \o "-" \o boundary
                               \o "-subnet-undefined"

C2_Witness ==
    /\ SubnetsCreated /\ Typed
    /\ Len(networkConfig[1].availabilityZones) = 1
    /\ Len(frame.createdPublicSubnets) = 2
    /\ calls[frame.createdPublicSubnets[2]].availabilityZone = Undefined
    /\ networkConfig[1].privateSubnet.cidrBlocks = <<>>
    /\ frame.createdPrivateSubnets = <<>>

(***************************************************************************)
(* C3, as claimed: for every NetworkConfig, the full create yields a NAT   *)
(* gateway whose subnetId is the id of publicSubnets[0] and of no private  *)
(* subnet, also when publicSubnet.cidrBlocks is empty.                     *)
(***************************************************************************)
C3_NatOnFirstPublicSubnet ==
    (variant = "full" /\ Typed /\ pc \in {"returned", "threw"}) =>
        /\ frame.createdNatGateway \in DOMAIN calls
        /\ calls[frame.createdNatGateway].kind = "NatGateway"
        /\ frame.createdPublicSubnets # <<>>
        /\ calls[frame.createdNatGateway].subnetId
             = Out(frame.createdPublicSubnets[1], "id")
        /\ calls[frame.createdNatGateway].subnetId.handle
             \notin Range(frame.createdPrivateSubnets)

(***************************************************************************)
(* C4: in the returned bundle each boundary has one association per        *)
(* subnet; the i-th association joins the boundary's i-th subnet to the    *)
(* boundary's own route table and is named {name}-{boundary}-rtb-assc-{i}  *)
(* with i counted from 0.                                                  *)
(***************************************************************************)
C4_AssociationsFollowSubnets ==
    (pc = "returned" /\ variant = "full" /\ Typed) =>
        LET b == result[1]
            ok(boundary, assocs, subnets, rtb) ==
              /\ Len(assocs) = Len(subnets)
              /\ calls[rtb].kind = "RouteTable"
              /\ calls[rtb].name = networkConfig[1].name \o "-" \o boundary \o "-rtb"
              /\ \A i \in DOMAIN assocs :
                   /\ calls[assocs[i]].kind = "SubnetRouteTableAssociation"
                   /\ calls[assocs[i]].subnetId.handle = subnets[i]
                   /\ calls[assocs[i]].routeTableId.handle = rtb
                   /\ calls[assocs[i]].name =
                        networkConfig[1].name \o "-" \o boundary
                        \o "-rtb-assc-" \o ToString(i - 1)
        IN  /\ ok(PUBLIC, b.publicRouteAssociations, b.publicSubnets,
                  b.publicRouteTable)
            /\ ok(PRIVATE, b.privateRouteAssociations, b.privateSubnets,
                  b.privateRouteTable)
            /\ b.publicRouteTable # b.privateRouteTable

C4_Witness ==
    /\ pc = "returned" /\ variant = "full" /\ Typed
    /\ Len(result[1].publicRouteAssociations) = 2
    /\ Len(result[1].privateRouteAssociations) = 1

(***************************************************************************)
(* C5: in the returned bundle the private route is in the private route    *)
(* table, goes to 0.0.0.0/0 through the NAT gateway and names no internet  *)
(* gateway; the public route is in the public route table, goes to         *)
(* 0.0.0.0/0 through the internet gateway and names no NAT gateway; the    *)
(* internet gateway and both route tables are attached to the VPC.         *)
(***************************************************************************)
C5_DefaultRoutes ==
    (pc = "returned" /\ variant = "full" /\ Typed) =>
        LET b == result[1]
            priv == calls[b.privateRoute]
            pub == calls[b.publicRoute]
        IN  /\ priv.kind = "Route" /\ pub.kind = "Route"
            /\ priv.routeTableId.handle = b.privateRouteTable
            /\ calls[b.privateRouteTable].kind = "RouteTable"
            /\ calls[b.privateRouteTable].name
                 = networkConfig[1].name \o "-private-rtb"
            /\ priv.destinationCidrBlock = "0.0.0.0/0"
            /\ priv.natGatewayId.handle = b.natGateway
            /\ calls[b.natGateway].kind = "NatGateway"
            /\ priv.gatewayId = NoRef
            /\ pub.routeTableId.handle = b.publicRouteTable
            /\ calls[b.publicRouteTable].kind = "RouteTable"
            /\ calls[b.publicRouteTable].name
                 = networkConfig[1].name \o "-public-rtb"
            /\ pub.destinationCidrBlock = "0.0.0.0/0"
            /\ pub.gatewayId.handle = b.internetGateway
            /\ calls[b.internetGateway].kind = "InternetGateway"
            /\ pub.natGatewayId = NoRef
            /\ calls[b.vpc].kind = "VPC"
            /\ calls[b.internetGateway].vpcId.handle = b.vpc
            /\ calls[b.publicRouteTable].vpcId.handle = b.vpc
            /\ calls[b.privateRouteTable].vpcId.handle = b.vpc

C5_Witness ==
    /\ pc = "returned" /\ variant = "full" /\ Typed
    /\ result[1].privateRoute \in DOMAIN calls
    /\ result[1].publicRoute \in DOMAIN calls
    /\ result[1].privateSubnets # <<>>

(***************************************************************************)
(* C6: the tag list of every derived subnet is the caller's tag list of    *)
(* the boundary, unchanged and in order, followed by a Name tag whose      *)
(* value is the subnet's resource name; without a tags property it is the  *)
(* Name tag alone.  A caller tag with key Name is kept like any other.     *)
(***************************************************************************)
C6_TagsPreservedPlusName ==
    (SubnetsCreated /\ Typed) =>
        \A boundary \in Boundaries :
          \A h \in Range(CreatedOf(boundary)) :
            LET callerTags == IF "tags" \in DOMAIN ConfigOf(boundary)
                              THEN ConfigOf(boundary).tags ELSE <<>>
                tags == calls[h].tags
            IN  /\ Len(tags) = Len(callerTags) + 1
                /\ \A i \in DOMAIN callerTags : tags[i] = callerTags[i]
                /\ tags[Len(tags)] = [key |-> "Name", value |-> calls[h].name]
                /\ "tags" \notin DOMAIN ConfigOf(boundary) =>
                     tags = <<[key |-> "Name", value |-> calls[h].name]>>

C6_Witness ==
    /\ SubnetsCreated /\ Typed
    /\ frame.createdPublicSubnets # <<>>
    /\ frame.createdPrivateSubnets # <<>>
    /\ "tags" \in DOMAIN networkConfig[1].publicSubnet
    /\ \E i \in DOMAIN networkConfig[1].publicSubnet.tags :
         networkConfig[1].publicSubnet.tags[i].key = "Name"
    /\ Len(calls[frame.createdPublicSubnets[1]].tags) = 3
    /\ "tags" \notin DOMAIN networkConfig[1].privateSubnet
    /\ Len(calls[frame.createdPrivateSubnets[1]].tags) = 1

(***************************************************************************)
(* C7, as claimed: the load fails with a configuration error whenever the  *)
(* stored object lacks a required field of NetworkConfig, so the program   *)
(* never gets past the load with such an object.                           *)
(***************************************************************************)
C7_LoadRejectsUntyped ==
    (pc # "load" /\ store # <<>> /\ ~IsNetworkConfig(store[1])) =>
        /\ pc = "configError"
        /\ calls = <<>>

RefFields == {"vpcId", "subnetId", "allocationId", "gatewayId",
              "natGatewayId", "routeTableId"}

KindOf(field) ==
    CASE field = "vpcId" -> "VPC"
      [] field = "subnetId" -> "Subnet"
      [] field = "allocationId" -> "EIP"
      [] field = "gatewayId" -> "InternetGateway"
      [] field = "natGatewayId" -> "NatGateway"
      [] field = "routeTableId" -> "RouteTable"

Needs(call) ==
    CASE call.kind \in {"Subnet", "InternetGateway", "RouteTable"} -> {"vpcId"}
      [] call.kind = "NatGateway" -> {"allocationId", "subnetId"}
      [] call.kind = "Route" ->
           {"routeTableId"} \cup (IF call.name = Str(cfgName) \o "-public-route"
                                  THEN {"gatewayId"} ELSE {"natGatewayId"})
      [] call.kind = "SubnetRouteTableAssociation" -> {"subnetId", "routeTableId"}
      [] OTHER -> {}

C9_DependenciesConstructedFirst ==
    \A i \in DOMAIN calls :
      /\ \A f \in Needs(calls[i]) : calls[i][f] # NoRef
      /\ \A f \in RefFields :
           calls[i][f] # NoRef =>
             /\ calls[i][f].handle \in 1..(i - 1)
             /\ calls[calls[i][f].handle].kind = KindOf(f)

C9_Witness ==
    /\ variant = "full" /\ pc = "return"
    /\ Len(frame.createdPublicRouteTableAssociations) = 2
    /\ Len(frame.createdPrivateRouteTableAssociations) = 2
    /\ Len(calls) = 16

(***************************************************************************)
(* C10                                                                     *)
(***************************************************************************)
\* Some availability zone is listed twice.
RepeatedZone ==
    \E i, j \in DOMAIN networkConfig[1].availabilityZones :
        i < j /\ networkConfig[1].availabilityZones[i]
                   = networkConfig[1].availabilityZones[j]

\* How many CIDR positions of the boundary have no availability zone.
Unzoned(boundary) ==
    Cardinality({i \in DOMAIN ConfigOf(boundary).cidrBlocks :
                    i > Len(networkConfig[1].availabilityZones)})

\* Two Subnet constructor calls were given the same name.
SubnetNameCollision ==
    \E i, j \in DOMAIN calls :
        /\ i < j
        /\ calls[i].kind = "Subnet" /\ calls[j].kind = "Subnet"
        /\ calls[i].name = calls[j].name

\* With pairwise distinct zones and one CIDR block per zone, no two
\* constructor calls of an invocation are given the same name.
DistinctNames ==
    (Valid /\ ~RepeatedZone) =>
        \A i, j \in DOMAIN calls : i # j => calls[i].name # calls[j].name

(***************************************************************************)
(* C10, as claimed: DistinctNames, and two subnets get the same name only  *)
(* if a zone is repeated or two or more CIDR positions of a boundary have  *)
(* no zone.                                                                *)
(***************************************************************************)
C10_CollisionOnlyFromRepeatOrGaps ==
    /\ DistinctNames
    /\ (Typed /\ SubnetNameCollision) =>
         \/ RepeatedZone
         \/ \E boundary \in Boundaries : Unzoned(boundary) >= 2

(***************************************************************************)
(* C10, amended: DistinctNames, and two subnets get the same name only if  *)
(* a zone is repeated, or two or more CIDR positions of a boundary have no *)
(* zone, or a boundary has a CIDR position without a zone while a zone is  *)
(* the string "undefined".                                                 *)
(***************************************************************************)
C10_CollisionCauses ==
    /\ DistinctNames
    /\ (Typed /\ SubnetNameCollision) =>
         \/ RepeatedZone
         \/ \E boundary \in Boundaries : Unzoned(boundary) >= 2
         \/ /\ \E boundary \in Boundaries : Unzoned(boundary) >= 1
            /\ "undefined" \in Range(networkConfig[1].availabilityZones)

C10_CollisionWitness ==
    /\ Typed /\ SubnetNameCollision /\ ~RepeatedZone
    /\ \A boundary \in Boundaries : Unzoned(boundary) < 2

====
